---- MODULE Spec2Model ----
(***************************************************************************)
(* The status bar of cli-tools-go: the block providers' monitor goroutines,*)
(* the stdin reader goroutine, the relay of process signals and the        *)
(* dispatch loop, in the two versions the repository holds:                *)
(*   build = "slot": src/unnamed/part_000 (mainLoop, one slot refreshed    *)
(*                   per notification, six providers)                      *)
(*   build = "full": src/status-bar/main.go (main, every slot refreshed    *)
(*                   per notification, four providers)                     *)
(* Private-use glyphs of the source's string literals are written as       *)
(* <vol>, <mute>, <temp>, <bell>, <dnd>.                                   *)
(* Two more programs are modelled, each with a specification of its own:   *)
(*   WallSpec:  set-wallpaper (src/set-wallpaper/main.go, lines 1-384)     *)
(*   ColorSpec: colorToString of src/status-bar/main.go                    *)
(***************************************************************************)
EXTENDS Integers, Sequences, FiniteSets, TLC

\* Bounds of the model (not program constants).
MaxEvents == 2
                  \* clock minutes, lines of stdin, control signals
MaxDim == 6       \* largest width or height of an image or a screen

VARIABLES
    build,            \* which of the two main programs runs
    crashed,          \* a goroutine panicked: the process is gone
    panicIn,          \* the goroutine that panicked, "none" while none has (history)
    mpc,              \* [kind -> position of that provider's monitor goroutine]
    pval,             \* [kind -> the provider's fields (its own internal state)]
    wr,               \* [kind -> the value a monitor is in the middle of writing]
    ver,              \* [kind -> number of writes of the fields completed] (history)
    now,              \* the wall clock, in minutes
    sendq,            \* goroutines blocked in a send on blockChanged, in arrival order
    rpc,              \* position of the stdin reader goroutine
    rpending,         \* the decoded event the reader is sending
    stdinBuf,         \* buffer of stdinChannel (capacity 1)
    stdinClosed,      \* stdinChannel was closed
    stdinLog,         \* the lines the reader has read, in input order (history)
    stdinSwitched,    \* the loop's stdinChannel now is stdinNeverWriteToMe
    sigBuf,           \* buffer of the signals channel (capacity 1)
    sigLog,           \* the signals delivered to the process, in order (history)
    pollLog,          \* the answers the weather monitor's polls got, in order (history)
    lpc,              \* position of the dispatch loop
    qi,               \* position the loop queries next
    qend,             \* last position of the refresh under way
    cur,              \* the notification being handled
    running,          \* kind of the provider whose external program the loop waits for
    fullBlockValues,  \* the rendered-state array
    out,              \* stdout, one element per print call
    logs,             \* the log file, one element per line relevant here
    posts,            \* [sender -> sends on blockChanged begun] (history)
    delivered,        \* [sender -> messages the loop received from it] (history)
    handled,          \* the notifications whose handling is complete, in order (history)
    clicks,           \* click handler invocations (history)
    stdinRecvs,       \* times the stdin case of the select was taken (history)
    readVer,          \* [position -> version of the fields the slot's Block reflects] (history)
    nEvents,          \* environment events so far (history)
    \* set-wallpaper
    wpc,              \* position of set-wallpaper's main, "off" while it does not run
    osArgs,           \* os.Args[1:]
    outputs,          \* main's outputs: the names getAllOutputs returned
    wallpapers,       \* main's wallpapers: the paths found in the wallpaper directories
    calls,            \* the calls of setWallpaperForScreen main has still to make
    screen,           \* setWallpaperForScreen's parameter screen
    wallpaper,        \* setWallpaperForScreen's parameter wallpaper
    sizes,            \* the image, screen and render sizes of the call under way
    wout,             \* set-wallpaper's stdout, the lines relevant here
    bgSet,            \* the "output ... bg ..." commands sent to the window manager
    \* colorToString
    colorIn,          \* the argument c
    colorOut          \* the string returned, as a sequence of characters

wallVars == <<wpc, osArgs, outputs, wallpapers, calls, screen, wallpaper, sizes, wout, bgSet>>
colorVars == <<colorIn, colorOut>>
\* The variables of the other programs, which the status bar never touches.
toolVars == <<wallVars, colorVars>>

vars == <<build, crashed, panicIn, mpc, pval, wr, ver, now, sendq, rpc, rpending, stdinBuf,
          stdinClosed, stdinLog, stdinSwitched, sigBuf, sigLog, pollLog, lpc, qi, qend, cur, running,
          fullBlockValues, out, logs, posts, delivered, handled, clicks,
          stdinRecvs, readVer, nEvents, toolVars>>

\* The variables of the status bar, which the other programs never touch.
barVars == <<build, crashed, panicIn, mpc, pval, wr, ver, now, sendq, rpc, rpending, stdinBuf,
             stdinClosed, stdinLog, stdinSwitched, sigBuf, sigLog, pollLog, lpc, qi, qend, cur,
             running, fullBlockValues, out, logs, posts, delivered, handled, clicks,
             stdinRecvs, readVer, nEvents>>

monVars == <<mpc, pval, wr, ver, posts>>
readerVars == <<rpc, rpending, stdinClosed>>
loopVars == <<lpc, qi, qend, cur, running, fullBlockValues, out, logs, delivered, handled,
              clicks, stdinRecvs, readVer, stdinSwitched>>

-----------------------------------------------------------------------------
\* The provider registration tables.

Builds == {"slot", "full"}
Kinds == {"volume", "weather", "ip", "temperature", "time", "nc"}

\* blockProviders: the ordered table of main.
blockProviders(b) ==
    IF b = "slot"
    THEN <<"volume", "weather", "ip", "temperature", "time", "nc">>
    ELSE <<"weather", "ip", "time", "nc">>

\* Go positions are 0-based.
Positions(b) == 0 .. (Len(blockProviders(b)) - 1)
ProviderAt(b, i) == blockProviders(b)[i + 1]
Registered(b) == {ProviderAt(b, i) : i \in Positions(b)}
IndexOf(b, k) == CHOOSE i \in Positions(b) : ProviderAt(b, i) = k

\* name(): the routing identifier of each provider.
name(b, k) ==
    CASE k = "volume" -> "volume"
      [] k = "weather" -> ""
      [] k = "ip" -> IF b = "slot" THEN "network" ELSE ""
      [] k = "temperature" -> ""
      [] k = "time" -> ""
      [] k = "nc" -> "notification center"

MaxOf(S) == CHOOSE x \in S : \A y \in S : y <= x

\* Mutant of providersByName: the test `if name != ""` is left out.
providersByNameWithEmpty(b) ==
    [nm \in {name(b, ProviderAt(b, i)) : i \in Positions(b)} |->
        MaxOf({i \in Positions(b) : name(b, ProviderAt(b, i)) = nm})]

\* providersByName: filled in position order, so a later provider of the same
\* name overwrites an earlier one; empty names are skipped.
providersByName(b) ==
    [nm \in {name(b, ProviderAt(b, i)) : i \in Positions(b)} \ {""} |->
        MaxOf({i \in Positions(b) : name(b, ProviderAt(b, i)) = nm})]

\* Mutant of MapLookup: the position no longer depends on the name.
MapLookupIgnoresName(b, nm) == 0

\* providersByName[event.Name]: a Go map read, the zero value 0 for a missing key.
MapLookup(b, nm) ==
    IF nm \in DOMAIN providersByName(b) THEN providersByName(b)[nm] ELSE 0

-----------------------------------------------------------------------------
\* Blocks and their JSON form.

ZeroBlock == [FullText |-> "", Name |-> ""]

\* Mutant of MarshalBlock: full_text tagged omitempty as well.
MarshalBlockOmitEmpty(blk) ==
    (IF blk.FullText # "" THEN <<<<"full_text", blk.FullText>>>> ELSE <<>>) \o
    (IF blk.Name # "" THEN <<<<"name", blk.Name>>>> ELSE <<>>)

\* json.Marshal of one fullSwaybarMessageBodyBlock: full_text always, name only
\* when not empty (omitempty); no provider sets any other field.
MarshalBlock(blk) ==
    <<<<"full_text", blk.FullText>>>> \o
    (IF blk.Name # "" THEN <<<<"name", blk.Name>>>> ELSE <<>>)

\* Mutant of Line: the line printed without the separating comma.
LineNoComma(b, fbv) ==
    [kind |-> "line",
     body |-> [j \in 1 .. Len(blockProviders(b)) |-> MarshalBlock(fbv[j - 1])],
     term |-> ""]

\* json.Marshal(fullBlockValues) followed by fmt.Println(str, ","): the array,
\* a space, a comma, a newline.
Line(b, fbv) ==
    [kind |-> "line",
     body |-> [j \in 1 .. Len(blockProviders(b)) |-> MarshalBlock(fbv[j - 1])],
     term |-> " ,"]

HeaderItem == [kind |-> "header", body |-> <<>>, term |-> ""]
OpenItem == [kind |-> "[", body |-> <<>>, term |-> ""]

-----------------------------------------------------------------------------
\* The providers' own state and createBlock.

VolZero == [leftMuted |-> FALSE, leftVolume |-> 0, rightMuted |-> FALSE, rightVolume |-> 0]
\* What amixer may report (a bounded choice of readings).
VolReadings ==
    {[leftMuted |-> FALSE, leftVolume |-> 50, rightMuted |-> FALSE, rightVolume |-> 50],
     [leftMuted |-> TRUE, leftVolume |-> 50, rightMuted |-> FALSE, rightVolume |-> 30]}

NcZero == [state |-> 0, isOpen |-> FALSE]

ncStateNone == 0
ncStateNotification == 1
ncStateDndNone == 2
ncStateDndNotification == 3

ncGetState(str) ==
    CASE str = "none" -> ncStateNone
      [] str = "notification" -> ncStateNotification
      [] str = "dnd-notification" -> ncStateDndNotification
      [] str = "dnd-none" -> ncStateDndNone
      [] OTHER -> ncStateNone

InitialFields(k) ==
    CASE k = "volume" -> VolZero
      [] k = "nc" -> NcZero
      [] OTHER -> ""

getVolumeString(vol, muted) ==
    IF muted THEN "<mute> mute" ELSE "<vol> " \o ToString(vol) \o "%"

volumeCreateBlock(v) ==
    IF v.leftMuted = v.rightMuted \/ v.leftVolume = v.rightVolume
    THEN getVolumeString(v.leftVolume, v.leftMuted)
    ELSE "L:" \o getVolumeString(v.leftVolume, v.leftMuted) \o
         " R:" \o getVolumeString(v.rightVolume, v.rightMuted)

ncCreateBlock(v) ==
    CASE v.state = ncStateNone -> "<bell>"
      [] v.state = ncStateNotification -> "<bell> !"
      [] v.state = ncStateDndNone -> "<dnd>"
      [] v.state = ncStateDndNotification -> "<dnd> !"
      [] OTHER -> ""

TwoDigits(n) == IF n < 10 THEN "0" \o ToString(n) ELSE ToString(n)

\* time.Now() formatted to the minute; the model's clock counts minutes.
timeCreateBlock(clock) == "Mon Jan 01, 2024 00:" \o TwoDigits(clock)

\* createBlock of every provider but ipAddressProvider: the FullText computed
\* from the fields v as the caller sees them.
createBlock(k, v, clock) ==
    CASE k = "volume" -> volumeCreateBlock(v)
      [] k = "weather" -> v
      [] k = "temperature" -> "<temp> " \o v
      [] k = "time" -> timeCreateBlock(clock)
      [] k = "nc" -> ncCreateBlock(v)

\* Outcomes of `hostname -I` inside ipAddressProvider.createBlock.
HostnameOutcomes == {"err", "10.0.0.2"}

\* ipAddressProvider.createBlock: the text after the call, given the text before
\* and the outcome of the command (run only while the text is empty).
ipTextAfter(text, host) ==
    IF text = "" THEN (IF host = "err" THEN "" ELSE "IP:" \o host) ELSE text

\* A string read while its writer is between the two word stores.
TornText == "<torn>"

\* What a read of k's fields can return. The fields are written by k's monitor
\* goroutine and read by the dispatch loop with no synchronisation: a read during
\* a write returns the old value, the new one, or a mix of their words (for a
\* string, its pointer and its length: garbage unless the two strings are equal).
Writing(k) == mpc[k] \in {"write", "init_write"}

FieldsSeen(k) ==
    IF ~Writing(k) THEN {pval[k]}
    ELSE CASE k = "volume" ->
                {[leftMuted |-> a.leftMuted, leftVolume |-> b.leftVolume,
                  rightMuted |-> c.rightMuted, rightVolume |-> d.rightVolume] :
                    a \in {pval[k], wr[k]}, b \in {pval[k], wr[k]},
                    c \in {pval[k], wr[k]}, d \in {pval[k], wr[k]}}
           [] k = "nc" ->
                {[state |-> a.state, isOpen |-> b.isOpen] :
                    a \in {pval[k], wr[k]}, b \in {pval[k], wr[k]}}
           [] OTHER -> {pval[k], wr[k]} \cup (IF pval[k] # wr[k] THEN {TornText} ELSE {})

-----------------------------------------------------------------------------
\* Initial state: main has started every goroutine (the stdin reader, the
\* monitors and, in the full-refresh build, the goroutine that posts the first
\* notification) and is about to print the header.

Senders == Kinds \cup {"init"}

\* The status bar after main's construction of its channels and tables.
BarInit ==
    /\ build \in Builds
    /\ crashed = FALSE
    /\ panicIn = "none"
    /\ mpc = [k \in Senders |->
                IF k = "init" THEN (IF build = "full" THEN "start" ELSE "absent")
                ELSE IF k \notin Registered(build) THEN "absent"
                ELSE IF k = "volume" THEN "start"
                ELSE IF k = "ip" THEN "done"     \* ipAddressProvider.monitor returns at once
                ELSE "wait"]
    /\ pval = [k \in Kinds |-> InitialFields(k)]
    /\ wr = [k \in Kinds |-> InitialFields(k)]
    /\ ver = [k \in Kinds |-> 0]
    /\ now = 0
    /\ sendq = <<>>
    /\ rpc = "read"
    /\ rpending = [Name |-> "", Button |-> 0]
    /\ stdinBuf = <<>>
    /\ stdinClosed = FALSE
    /\ stdinLog = <<>>
    /\ stdinSwitched = FALSE
    /\ sigBuf = <<>>
    /\ sigLog = <<>>
    /\ pollLog = <<>>
    /\ lpc = "init"
    /\ qi = 0
    /\ qend = 0
    /\ cur = [from |-> "none", index |-> -1, trig |-> 0, text |-> ""]
    /\ running = "none"
    /\ fullBlockValues = [i \in Positions(build) |-> ZeroBlock]
    /\ out = <<>>
    /\ logs = <<>>
    /\ posts = [k \in Senders |-> 0]
    /\ delivered = [k \in Senders |-> 0]
    /\ handled = <<>>
    /\ clicks = <<>>
    /\ stdinRecvs = 0
    /\ readVer = [i \in Positions(build) |-> 0]
    /\ nEvents = 0

\* set-wallpaper does not run.
WallIdle ==
    /\ wpc = "off"
    /\ osArgs = <<>>
    /\ outputs = <<>>
    /\ wallpapers = <<>>
    /\ calls = <<>>
    /\ screen = ""
    /\ wallpaper = ""
    /\ sizes = <<>>
    /\ wout = <<>>
    /\ bgSet = <<>>

\* colorToString is not called.
ColorIdle == colorIn = 0 /\ colorOut = <<>>

Init == BarInit /\ WallIdle /\ ColorIdle

\* The process runs: no goroutine panicked and main has not returned.
Alive == ~crashed /\ lpc # "returned"

\* panic / logger.Panic in the goroutine `who` ends the process.
Panic(who) ==
    /\ crashed' = TRUE
    /\ panicIn' = who
    /\ UNCHANGED <<toolVars, build, pollLog, stdinLog, sigLog, monVars, now, sendq, readerVars, stdinBuf, sigBuf,
                   loopVars>>

-----------------------------------------------------------------------------
\* The monitor goroutines.

\* The message a provider sends: its position in the slot build, a bare `true`
\* (no position) in the full-refresh build. from, trig and text are history: the
\* sending goroutine, the update of its fields that caused the send, and the
\* FullText that update amounts to.
Msg(k, t, txt) ==
    [from |-> k, index |-> IF build = "slot" THEN IndexOf(build, k) ELSE -1, trig |-> t,
     text |-> txt]

\* Mutant of SendBlockChanged: a send that does not wait (select with default),
\* so a notification posted while another one is pending is dropped.
SendWithoutWaiting(k, t, txt) ==
    /\ sendq' = IF sendq = <<>> THEN Append(sendq, Msg(k, t, txt)) ELSE sendq
    /\ mpc' = [mpc EXCEPT ![k] = IF sendq = <<>> THEN "blocked" ELSE "wait"]
    /\ posts' = [posts EXCEPT ![k] = @ + 1]

\* changeChan <- msg on the unbuffered channel: the goroutine parks in the
\* channel's queue of senders until the loop receives.
SendBlockChanged(k, t, txt) ==
    /\ sendq' = Append(sendq, Msg(k, t, txt))
    /\ mpc' = [mpc EXCEPT ![k] = "blocked"]
    /\ posts' = [posts EXCEPT ![k] = @ + 1]

\* The monitor begins to store v into its fields.
BeginWrite(k, v, pc) ==
    /\ wr' = [wr EXCEPT ![k] = v]
    /\ mpc' = [mpc EXCEPT ![k] = pc]
    /\ UNCHANGED <<pval, ver, posts, sendq>>

\* Whether the monitor notifies after storing wr[k] over pval[k].
PostNeeded(k) ==
    CASE k = "volume" -> wr[k] # pval[k]
      [] k = "nc" -> wr[k].state # pval[k].state
      [] OTHER -> TRUE

\* Mutant of MonitorCommit: the notification is sent but the new value is not
\* stored in the provider's fields.
MonitorCommitNoStore(k) ==
    /\ Alive
    /\ mpc[k] = "write"
    /\ IF PostNeeded(k)
       THEN SendBlockChanged(k, ver[k] + 1, createBlock(k, wr[k], now))
       ELSE /\ mpc' = [mpc EXCEPT ![k] = "wait"]
            /\ UNCHANGED <<posts, sendq>>
    /\ UNCHANGED <<toolVars, build, pollLog, crashed, panicIn, stdinLog, sigLog, pval, ver, wr, now, readerVars, stdinBuf, sigBuf, loopVars,
                   nEvents>>

\* Mutant of MonitorCommit: the monitor also writes its Block into the
\* rendered-state array itself.
MonitorCommitWritesSlot(k) ==
    /\ Alive
    /\ mpc[k] = "write"
    /\ pval' = [pval EXCEPT ![k] = wr[k]]
    /\ ver' = [ver EXCEPT ![k] = @ + 1]
    /\ fullBlockValues' = [fullBlockValues EXCEPT ![IndexOf(build, k)] =
                             [FullText |-> createBlock(k, wr[k], now), Name |-> name(build, k)]]
    /\ IF PostNeeded(k)
       THEN SendBlockChanged(k, ver[k] + 1, createBlock(k, wr[k], now))
       ELSE /\ mpc' = [mpc EXCEPT ![k] = "wait"]
            /\ UNCHANGED <<posts, sendq>>
    /\ UNCHANGED <<toolVars, build, pollLog, crashed, panicIn, stdinLog, sigLog, wr, now, readerVars, stdinBuf, sigBuf, lpc, qi, qend, cur,
                   running, out, logs, delivered, handled, clicks, stdinRecvs, readVer,
                   stdinSwitched, nEvents>>

\* The store completes; the monitor then sends the notification if its code
\* does so for this change, else goes back to waiting.
MonitorCommit(k) ==
    /\ Alive
    /\ mpc[k] = "write"
    /\ pval' = [pval EXCEPT ![k] = wr[k]]
    /\ ver' = [ver EXCEPT ![k] = @ + 1]
    /\ IF PostNeeded(k)
       THEN SendBlockChanged(k, ver[k] + 1, createBlock(k, wr[k], now))
       ELSE /\ mpc' = [mpc EXCEPT ![k] = "wait"]
            /\ UNCHANGED <<posts, sendq>>
    /\ UNCHANGED <<toolVars, build, pollLog, crashed, panicIn, stdinLog, sigLog, wr, now, readerVars, stdinBuf, sigBuf, loopVars,
                   nEvents>>

\* volumeProvider.monitor before its loop: updateVolume() with no notification.
VolumeInitCommit ==
    /\ Alive
    /\ mpc["volume"] = "init_write"
    /\ pval' = [pval EXCEPT !["volume"] = wr["volume"]]
    /\ ver' = [ver EXCEPT !["volume"] = @ + 1]
    /\ mpc' = [mpc EXCEPT !["volume"] = "wait"]
    /\ UNCHANGED <<toolVars, build, pollLog, crashed, panicIn, stdinLog, sigLog, wr, now, posts, sendq, readerVars, stdinBuf, sigBuf,
                   loopVars, nEvents>>

\* updateVolume: `amixer get Master` fails or cannot be parsed (logger.Panic),
\* or yields a reading. At "start" it is the call before the loop, at "wait" the
\* call made when VOLUME_CHANGED_SIGNAL arrives.
VolumeUpdate ==
    /\ Alive
    /\ mpc["volume"] \in {"start", "wait"}
    /\ nEvents < MaxEvents
    /\ nEvents' = nEvents + 1
    /\ \/ Panic("volume")
       \/ \E r \in VolReadings :
            /\ BeginWrite("volume", r, IF mpc["volume"] = "start" THEN "init_write" ELSE "write")
            /\ UNCHANGED <<toolVars, build, pollLog, crashed, panicIn, stdinLog, sigLog, now, readerVars, stdinBuf, sigBuf, loopVars>>

\* What client.Do may return to weatherProvider.monitor.
\*   status: the first three characters of response.Status, "nil" for no response
\*   readOk: io.ReadAll succeeds; lines: the body has two lines of 16 characters
\*   or more; text: what is left of the two lines after the cut and trim.
WeatherResponses ==
    {[status |-> "200", readOk |-> TRUE, lines |-> TRUE, text |-> "Sunny +20C"],
     [status |-> "200", readOk |-> FALSE, lines |-> TRUE, text |-> ""],
     [status |-> "200", readOk |-> TRUE, lines |-> FALSE, text |-> ""],
     [status |-> "404", readOk |-> TRUE, lines |-> TRUE, text |-> ""],
     [status |-> "abc", readOk |-> TRUE, lines |-> TRUE, text |-> ""],
     [status |-> "nil", readOk |-> TRUE, lines |-> TRUE, text |-> ""]}

\* strconv.ParseInt(response.Status[:3], 10, 32): -1 stands for the error.
ParseStatus(s) ==
    CASE s = "200" -> 200
      [] s = "404" -> 404
      [] OTHER -> -1

\* One poll of weatherProvider.monitor, up to the store of weatherStatus.
WeatherPoll ==
    /\ Alive
    /\ mpc["weather"] = "wait"
    /\ nEvents < MaxEvents
    /\ nEvents' = nEvents + 1
    /\ \E resp \in WeatherResponses :
         LET status == ParseStatus(resp.status) IN
         IF resp.status = "nil" THEN Panic("weather")      \* response.Status of a nil response
         ELSE IF status = -1 \/ (status >= 200 /\ status < 300 /\ ~resp.readOk)
         THEN \* goto threadSleep: nothing stored, nothing sent
              /\ pollLog' = Append(pollLog, resp)
              /\ UNCHANGED <<toolVars, build, crashed, panicIn, stdinLog, sigLog, monVars, now, sendq,
                             readerVars, stdinBuf, sigBuf, loopVars>>
         ELSE IF status >= 200 /\ status < 300 /\ ~resp.lines
         THEN Panic("weather")                             \* lines[1] or lines[0][16:] out of range
         ELSE /\ BeginWrite("weather",
                            IF status >= 200 /\ status < 300 THEN resp.text
                            ELSE "wttr.in status code " \o ToString(status),
                            "write")
              /\ pollLog' = Append(pollLog, resp)
              /\ UNCHANGED <<toolVars, build, crashed, panicIn, stdinLog, sigLog, now, readerVars, stdinBuf,
                             sigBuf, loopVars>>

\* What the scan of `sensors` may yield as maxString.
TempReadings == {"", "45.0C"}

\* One poll of temperatureProvider.monitor: the command fails (logger.Panic),
\* or maxString equals the text (nothing stored, nothing sent), or it differs.
TemperaturePoll ==
    /\ Alive
    /\ mpc["temperature"] = "wait"
    /\ nEvents < MaxEvents
    /\ nEvents' = nEvents + 1
    /\ \/ Panic("temperature")
       \/ \E maxString \in TempReadings :
            IF pval["temperature"] # maxString
            THEN /\ BeginWrite("temperature", maxString, "write")
                 /\ UNCHANGED <<toolVars, build, pollLog, crashed, panicIn, stdinLog, sigLog, now, readerVars, stdinBuf, sigBuf, loopVars>>
            ELSE UNCHANGED <<toolVars, build, pollLog, crashed, panicIn, stdinLog, sigLog, monVars, now, sendq, readerVars, stdinBuf,
                             sigBuf, loopVars>>

\* What swaync-client may write: the class as a string, as an array (with or
\* without "cc-open"), as something else, or nothing decodable.
NcOutputs ==
    {[form |-> "string", cls |-> "notification", open |-> FALSE],
     [form |-> "array", cls |-> "dnd-notification", open |-> TRUE],
     [form |-> "other", cls |-> "", open |-> FALSE],
     [form |-> "undecodable", cls |-> "", open |-> FALSE]}

\* One pass of notificationCenterMonitor.monitor's loop, up to the stores.
NcDecode ==
    /\ Alive
    /\ mpc["nc"] = "wait"
    /\ nEvents < MaxEvents
    /\ nEvents' = nEvents + 1
    /\ \E o \in NcOutputs :
         IF o.form = "undecodable" THEN Panic("nc")
         ELSE /\ BeginWrite("nc",
                            [state |-> IF o.form = "other" THEN pval["nc"].state
                                        ELSE ncGetState(o.cls),
                             isOpen |-> o.form = "array" /\ o.open],
                            "write")
              /\ UNCHANGED <<toolVars, build, pollLog, crashed, panicIn, stdinLog, sigLog, now, readerVars, stdinBuf, sigBuf, loopVars>>

\* A minute passes. timeMonitor.monitor sleeps to the next minute and then
\* sends; ver["time"] records the minute that woke it.
Tick ==
    /\ Alive
    /\ nEvents < MaxEvents
    /\ nEvents' = nEvents + 1
    /\ now' = now + 1
    /\ IF mpc["time"] = "wait"
       THEN /\ SendBlockChanged("time", now + 1, timeCreateBlock(now + 1))
            /\ ver' = [ver EXCEPT !["time"] = now + 1]
       ELSE UNCHANGED <<mpc, posts, sendq, ver>>
    /\ UNCHANGED <<toolVars, build, pollLog, crashed, panicIn, stdinLog, sigLog, pval, wr, readerVars, stdinBuf, sigBuf, loopVars>>

\* The goroutine of the full-refresh build that posts the first notification.
InitialPost ==
    /\ Alive
    /\ mpc["init"] = "start"
    /\ SendBlockChanged("init", 0, "")
    /\ UNCHANGED <<toolVars, build, pollLog, crashed, panicIn, stdinLog, sigLog, pval, wr, ver, now, readerVars, stdinBuf, sigBuf,
                   loopVars, nEvents>>

-----------------------------------------------------------------------------
\* The stdin reader goroutine.

ClickNames == {"volume", "notification center", "", "x"}

\* The lines stdin may deliver. An event line holds a JSON object, with or
\* without a leading comma; "malformed" is any other line that is not a bracket
\* (the empty line included); "eof" is ReadString returning an error.
InputLines ==
    {[kind |-> kd, comma |-> FALSE, Name |-> "", Button |-> 0] :
        kd \in {"[", "]", "eof", "malformed"}}
    \cup {[kind |-> "event", comma |-> FALSE, Name |-> n, Button |-> 1] : n \in ClickNames}
    \cup {[kind |-> "event", comma |-> TRUE, Name |-> "notification center", Button |-> 3]}

\* decodeClickEvent: the leading comma is dropped, the rest is unmarshalled.
decodeClickEvent(line) == [Name |-> line.Name, Button |-> line.Button]

\* Mutant of DecodeFailure: the error is only logged, and the zero clickEvent
\* that decodeClickEvent then returns is forwarded.
DecodeFailureForwardsZero ==
    /\ rpending' = [Name |-> "", Button |-> 0]
    /\ rpc' = "send"
    /\ UNCHANGED <<toolVars, build, pollLog, crashed, panicIn, sigLog, monVars, now, sendq, stdinClosed, stdinBuf, sigBuf,
                   loopVars>>

\* decodeClickEvent on a line json.Unmarshal rejects (or on the empty line,
\* eventString[0] out of range): logger.Panic in the reader goroutine.
DecodeFailure ==
    /\ crashed' = TRUE
    /\ panicIn' = "reader"
    /\ UNCHANGED <<toolVars, build, pollLog, sigLog, monVars, now, sendq, readerVars, stdinBuf, sigBuf, loopVars>>

\* One pass of the reader's loop: ReadString, then by the trimmed line.
ReadLine ==
    /\ Alive
    /\ rpc = "read"
    /\ nEvents < MaxEvents
    /\ nEvents' = nEvents + 1
    /\ \E line \in InputLines :
         /\ stdinLog' = Append(stdinLog, line)
         /\ CASE line.kind = "[" ->
                  UNCHANGED <<toolVars, build, pollLog, crashed, panicIn, sigLog, monVars, now, sendq, readerVars, stdinBuf,
                              sigBuf, loopVars>>
              [] line.kind \in {"]", "eof"} ->
                  /\ stdinClosed' = TRUE
                  /\ rpc' = "closed"
                  /\ UNCHANGED <<toolVars, build, pollLog, crashed, panicIn, sigLog, monVars, now, sendq, rpending, stdinBuf,
                                 sigBuf, loopVars>>
              [] line.kind = "event" ->
                  /\ rpending' = decodeClickEvent(line)
                  /\ rpc' = "send"
                  /\ UNCHANGED <<toolVars, build, pollLog, crashed, panicIn, sigLog, monVars, now, sendq, stdinClosed,
                                 stdinBuf, sigBuf, loopVars>>
              [] line.kind = "malformed" -> DecodeFailure

\* Mutant of ReaderSend: the send does not wait; the event overwrites whatever
\* the buffer holds.
ReaderSendOverwrites ==
    /\ Alive
    /\ rpc = "send"
    /\ stdinBuf' = <<rpending>>
    /\ rpc' = "read"
    /\ UNCHANGED <<toolVars, build, pollLog, crashed, panicIn, stdinLog, sigLog, monVars, now, sendq, rpending,
                   stdinClosed, sigBuf, loopVars, nEvents>>

\* stdinChannel <- event: blocks while the one-slot buffer is full.
ReaderSend ==
    /\ Alive
    /\ rpc = "send"
    /\ Len(stdinBuf) < 1
    /\ stdinBuf' = Append(stdinBuf, rpending)
    /\ rpc' = "read"
    /\ UNCHANGED <<toolVars, build, pollLog, crashed, panicIn, stdinLog, sigLog, monVars, now, sendq, rpending,
                   stdinClosed, sigBuf, loopVars, nEvents>>

-----------------------------------------------------------------------------
\* Process signals. signal.Notify relays SIGCONT and SIGSTOP to the channel
\* `signals` of capacity 1 with a send that never blocks: a signal that finds
\* the buffer full is dropped.

DeliverSignal ==
    /\ Alive
    /\ nEvents < MaxEvents
    /\ nEvents' = nEvents + 1
    /\ \E s \in {"SIGCONT", "SIGSTOP"} :
         /\ sigBuf' = IF Len(sigBuf) < 1 THEN Append(sigBuf, s) ELSE sigBuf
         /\ sigLog' = Append(sigLog, s)
    /\ UNCHANGED <<toolVars, build, pollLog, crashed, panicIn, stdinLog, monVars, now, sendq, readerVars, stdinBuf, loopVars>>

-----------------------------------------------------------------------------
\* The dispatch loop.

NoMsg == [from |-> "none", index |-> -1, trig |-> 0, text |-> ""]
StartupMsg == [from |-> "startup", index |-> -1, trig |-> 0, text |-> ""]

LastPosition(b) == Len(blockProviders(b)) - 1

\* sendHeader(header); fmt.Print("["); and, in the slot build, the call
\* displayStatusBar(fullBlockValues, blockProviders, -1) begins.
Startup ==
    /\ Alive
    /\ lpc = "init"
    /\ out' = <<HeaderItem, OpenItem>>
    /\ IF build = "slot"
       THEN /\ lpc' = "refresh"
            /\ qi' = 0
            /\ qend' = LastPosition(build)
            /\ cur' = StartupMsg
       ELSE /\ lpc' = "select"
            /\ UNCHANGED <<qi, qend, cur>>
    /\ UNCHANGED <<toolVars, build, pollLog, crashed, panicIn, stdinLog, sigLog, monVars, now, sendq, readerVars, stdinBuf, sigBuf,
                   running, fullBlockValues, logs, delivered, handled, clicks, stdinRecvs, readVer,
                   stdinSwitched, nEvents>>

\* Mutant of RefreshRange: every position is refreshed for every message.
RefreshRangeAlwaysFull(b, m) == <<0, LastPosition(b)>>

\* The positions refreshed for a received message: displayStatusBar refreshes
\* the one position the message names; the full-refresh build's loop calls
\* updateFullBlockValues.
RefreshRange(b, m) ==
    IF b = "slot" THEN <<m.index, m.index>> ELSE <<0, LastPosition(b)>>

\* case changeInfo := <-blockChanged: the first parked sender hands over its
\* message and runs on.
RecvBlockChanged ==
    /\ Alive
    /\ lpc = "select"
    /\ sendq # <<>>
    /\ LET m == Head(sendq) IN
         /\ sendq' = Tail(sendq)
         /\ mpc' = [mpc EXCEPT ![m.from] = IF m.from = "init" THEN "done" ELSE "wait"]
         /\ delivered' = [delivered EXCEPT ![m.from] = @ + 1]
         /\ cur' = m
         /\ qi' = RefreshRange(build, m)[1]
         /\ qend' = RefreshRange(build, m)[2]
         /\ lpc' = "refresh"
    /\ UNCHANGED <<toolVars, build, pollLog, crashed, panicIn, stdinLog, sigLog, pval, wr, ver, posts, now, readerVars, stdinBuf, sigBuf,
                   running, fullBlockValues, out, logs, handled, clicks, stdinRecvs, readVer,
                   stdinSwitched, nEvents>>

\* updateSingleBlock for position qi: createBlock, the name set, the slot
\* overwritten; after the last position of the refresh the array is marshalled
\* and printed.
QueryStep ==
    /\ Alive
    /\ lpc = "refresh"
    /\ LET k == ProviderAt(build, qi) IN
       \E v \in FieldsSeen(k), host \in HostnameOutcomes :
         /\ (k # "ip" \/ pval[k] # "") => host = "err"
         /\ pval' = IF k = "ip" THEN [pval EXCEPT ![k] = ipTextAfter(pval[k], host)] ELSE pval
         /\ fullBlockValues' =
              [fullBlockValues EXCEPT ![qi] =
                 [FullText |-> IF k = "ip" THEN ipTextAfter(pval[k], host)
                               ELSE createBlock(k, v, now),
                  Name |-> name(build, k)]]
         /\ readVer' = [readVer EXCEPT ![qi] = IF k = "time" THEN now ELSE ver[k]]
    /\ IF qi = qend
       THEN /\ out' = Append(out, Line(build, fullBlockValues'))
            /\ handled' = IF cur.from = "startup" THEN handled ELSE Append(handled, cur)
            /\ cur' = NoMsg
            /\ lpc' = "select"
            /\ UNCHANGED <<qi, qend>>
       ELSE /\ qi' = qi + 1
            /\ UNCHANGED <<out, handled, cur, lpc, qend>>
    /\ UNCHANGED <<toolVars, build, pollLog, crashed, panicIn, stdinLog, sigLog, mpc, wr, ver, posts, now, sendq, readerVars, stdinBuf,
                   sigBuf, running, logs, delivered, clicks, stdinRecvs, stdinSwitched,
                   nEvents>>

\* Whether respondToClick of provider k runs an external program (and waits
\* for it: exec.Command(...).Run()).
RunsProgram(b, k, ev) ==
    CASE k = "volume" -> TRUE
      [] k = "ip" -> b = "slot"
      [] k = "nc" -> ev.Button = 1
      [] OTHER -> FALSE

\* Mutant of StdinCaseReady: the loop keeps selecting on the reader's channel
\* after it saw it closed.
StdinCaseReadyNoSwitch == stdinBuf # <<>> \/ stdinClosed

\* Whether the case `<-stdinChannel` of the select can be taken: the loop's
\* variable still is the reader's channel, which holds an event or is closed
\* (stdinNeverWriteToMe is never ready).
StdinCaseReady == ~stdinSwitched /\ (stdinBuf # <<>> \/ stdinClosed)

\* case event, isOpen := <-stdinChannel with isOpen true.
RecvClick ==
    /\ Alive
    /\ lpc = "select"
    /\ StdinCaseReady
    /\ stdinBuf # <<>>
    /\ stdinRecvs' = stdinRecvs + 1
    /\ LET ev == Head(stdinBuf)
           providerIndex == MapLookup(build, ev.Name)
           k == ProviderAt(build, providerIndex) IN
         /\ stdinBuf' = Tail(stdinBuf)
         /\ clicks' = Append(clicks, [name |-> ev.Name, button |-> ev.Button, to |-> providerIndex])
         /\ IF RunsProgram(build, k, ev)
            THEN lpc' = "run" /\ running' = k
            ELSE UNCHANGED <<lpc, running>>
    /\ UNCHANGED <<toolVars, build, pollLog, crashed, panicIn, stdinLog, sigLog, monVars, now, sendq, readerVars, sigBuf, qi, qend, cur,
                   fullBlockValues, out, logs, delivered, handled, readVer, stdinSwitched,
                   nEvents>>

\* Mutant of ProgramExit: the handler treats the end of the program as fatal and
\* the loop returns.
ProgramExitEndsLoop ==
    /\ Alive
    /\ lpc = "run"
    /\ lpc' = "returned"
    /\ running' = "none"
    /\ UNCHANGED <<toolVars, build, pollLog, crashed, panicIn, stdinLog, sigLog, monVars, now, sendq,
                   readerVars, stdinBuf, sigBuf, qi, qend, cur, fullBlockValues, out, logs,
                   delivered, handled, clicks, stdinRecvs, readVer, stdinSwitched, nEvents>>

\* Run() returns: the external program a click handler waits for could not be
\* started or has exited, with or without error. The error is discarded.
ProgramExit ==
    /\ Alive
    /\ lpc = "run"
    /\ lpc' = "select"
    /\ running' = "none"
    /\ UNCHANGED <<toolVars, build, pollLog, crashed, panicIn, stdinLog, sigLog, monVars, now, sendq, readerVars, stdinBuf, sigBuf, qi,
                   qend, cur, fullBlockValues, out, logs, delivered, handled, clicks,
                   stdinRecvs, readVer, stdinSwitched, nEvents>>

\* Mutant of ClosureVisible: a receive reports the closure as soon as the
\* channel is closed, whatever its buffer still holds.
ClosureVisibleAtOnce == stdinClosed

\* A receive on a closed channel yields isOpen = false only once the buffer is
\* drained.
ClosureVisible == stdinClosed /\ stdinBuf = <<>>

\* case event, isOpen := <-stdinChannel with isOpen false: the channel is closed
\* and drained; stdinChannel = stdinNeverWriteToMe.
RecvClosed ==
    /\ Alive
    /\ lpc = "select"
    /\ StdinCaseReady
    /\ ClosureVisible
    /\ stdinSwitched' = TRUE
    /\ stdinRecvs' = stdinRecvs + 1
    /\ UNCHANGED <<toolVars, build, pollLog, crashed, panicIn, stdinLog, sigLog, monVars, now, sendq, readerVars, stdinBuf, sigBuf, lpc,
                   qi, qend, cur, running, fullBlockValues, out, logs, delivered, handled,
                   clicks, readVer, nEvents>>

\* Mutant of SignalOutcome: SIGSTOP is logged like SIGCONT and the loop goes on.
SignalOutcomeNeverReturns(s) == "select"

\* Mutant of SignalOutcome: the loop returns on either signal.
SignalOutcomeAlwaysReturns(s) == "returned"

\* Where the loop goes after the signal case: back to the select for SIGCONT,
\* out of mainLoop (and so out of main: the process exits) for SIGSTOP.
SignalOutcome(s) == IF s = "SIGSTOP" THEN "returned" ELSE "select"

\* case signal := <-signals.
RecvSignal ==
    /\ Alive
    /\ lpc = "select"
    /\ sigBuf # <<>>
    /\ sigBuf' = Tail(sigBuf)
    /\ logs' = Append(logs, Head(sigBuf))
    /\ lpc' = SignalOutcome(Head(sigBuf))
    /\ UNCHANGED <<toolVars, build, pollLog, crashed, panicIn, stdinLog, sigLog, monVars, now, sendq, readerVars, stdinBuf, qi, qend, cur,
                   running, fullBlockValues, out, delivered, handled, clicks, stdinRecvs, readVer,
                   stdinSwitched, nEvents>>

-----------------------------------------------------------------------------

Next ==
    \/ \E k \in Kinds : MonitorCommit(k)
    \/ VolumeInitCommit
    \/ VolumeUpdate
    \/ WeatherPoll
    \/ TemperaturePoll
    \/ NcDecode
    \/ Tick
    \/ InitialPost
    \/ ReadLine
    \/ ReaderSend
    \/ DeliverSignal
    \/ Startup
    \/ RecvBlockChanged
    \/ QueryStep
    \/ RecvClick
    \/ ProgramExit
    \/ RecvClosed
    \/ RecvSignal

Spec == Init /\ [][Next]_vars

\* The scheduling the Go runtime gives: every goroutine that can run does run,
\* and a select case that stays ready is taken. Nothing makes the environment
\* act: no reading, line or signal has to arrive, and the external program a
\* click handler waits for need not exit.
Fairness ==
    /\ WF_vars(\E k \in Kinds : MonitorCommit(k))
    /\ WF_vars(VolumeInitCommit)
    /\ WF_vars(InitialPost)
    /\ WF_vars(ReaderSend)
    /\ WF_vars(Startup)
    /\ WF_vars(RecvBlockChanged)
    /\ WF_vars(QueryStep)
    /\ WF_vars(RecvClick)
    /\ WF_vars(RecvClosed)
    /\ WF_vars(RecvSignal)

FairSpec == Spec /\ Fairness

-----------------------------------------------------------------------------
\* Properties.

CountLines(o) == Cardinality({i \in 1 .. Len(o) : o[i].kind = "line"})

\* The line of the startup refresh of the slot build has been printed.
StartupLinePrinted ==
    build = "slot" /\ lpc # "init" /\ ~(lpc = "refresh" /\ cur = StartupMsg)

\* A step of the loop that is a call of createBlock for position qi.
IsQuery == lpc = "refresh" /\ (qi' # qi \/ lpc' # "refresh")

\* C1: every notification whose handling completes adds exactly one element to
\* stdout, after all earlier ones: a line holding one object per position with
\* the FullText the rendered-state array has at that moment, ending in a comma;
\* and the lines printed are one per handled notification (plus the line of
\* the startup refresh).
C1_OneLinePerNotification ==
    [][/\ handled' # handled =>
            /\ Len(handled') = Len(handled) + 1
            /\ Len(out') = Len(out) + 1
            /\ SubSeq(out', 1, Len(out)) = out
            /\ LET ln == out'[Len(out')] IN
                 /\ ln.kind = "line"
                 /\ ln.term = " ,"
                 /\ Len(ln.body) = Len(blockProviders(build))
                 /\ \A j \in 1 .. Len(ln.body) :
                      ln.body[j][1] = <<"full_text", fullBlockValues'[j - 1].FullText>>
       /\ CountLines(out') = Len(handled') + (IF StartupLinePrinted' THEN 1 ELSE 0)
      ]_vars

\* Two notifications of different providers have been handled.
C1_Witness ==
    /\ Len(handled) >= 2
    /\ handled[1].from # handled[2].from
    /\ CountLines(out) >= 2

\* C2: while the loop handles a notification of a provider, the only createBlock
\* it calls is that provider's and the only slot that changes is that
\* provider's.
C2_OnlyNotifiedSlot ==
    [][(IsQuery /\ cur.from \in Kinds) =>
          /\ qi = IndexOf(build, cur.from)
          /\ \A i \in Positions(build) \ {qi} : fullBlockValues'[i] = fullBlockValues[i]
      ]_vars

InQueue(k) == Cardinality({i \in 1 .. Len(sendq) : sendq[i].from = k})

TotalDelivered ==
    delivered["volume"] + delivered["weather"] + delivered["ip"] + delivered["temperature"]
    + delivered["time"] + delivered["nc"] + delivered["init"]

\* C3: for every sender, the sends it began are the messages the loop received
\* from it plus the one send it may still be parked in; and every message
\* received is handled once (it is the one in hand or one already handled).
C3_NoCoalescing ==
    /\ \A k \in Senders :
         /\ posts[k] = delivered[k] + InQueue(k)
         /\ InQueue(k) <= 1
         /\ (InQueue(k) = 1) <=> (mpc[k] = "blocked")
    /\ TotalDelivered = Len(handled) + (IF cur.from \in Senders THEN 1 ELSE 0)

\* A notification is handled while another sender is parked, after an earlier
\* notification was handled.
C3_Witness ==
    /\ cur.from \in Senders
    /\ sendq # <<>>
    /\ Len(handled) >= 1

\* C4: a monitor parked in its send is eventually released (or the process
\* ends).
C4_EventuallyDelivered ==
    \A k \in Senders : [](mpc[k] = "blocked" => <>(mpc[k] # "blocked" \/ ~Alive))

\* What the fields of k amount to now, as a count of updates (the clock for the
\* time provider, which has no fields).
Version(k) == IF k = "time" THEN now ELSE ver[k]

\* C5: a notification is in the channel only after the update that caused it
\* is stored; and the createBlock the loop calls for a notification reflects
\* that update or a later one: never an earlier version, and exactly the text
\* of that update when no later update has begun.
C5_ReflectsTriggeringUpdate ==
    [][/\ \A i \in 1 .. Len(sendq') :
            sendq'[i].from \in Kinds \ {"time"} => ver'[sendq'[i].from] >= sendq'[i].trig
       /\ (IsQuery /\ cur.from \in Kinds /\ qi = IndexOf(build, cur.from)) =>
            /\ readVer'[qi] >= cur.trig
            /\ (Version(cur.from) = cur.trig /\ ~Writing(cur.from)) =>
                 fullBlockValues'[qi].FullText = cur.text
      ]_vars

\* The notification of a provider with fields has been handled.
C5_Witness ==
    \E i \in 1 .. Len(handled) : handled[i].from \in {"volume", "weather", "temperature", "nc"}

\* C6: stdout and the rendered-state array change only in steps of the loop
\* (no monitor, nor the reader, moves in such a step); the loop takes an event
\* from a channel only when it has none in hand; it never has two in hand.
C6_SingleWriter ==
    [][/\ (out' # out \/ fullBlockValues' # fullBlockValues) =>
            /\ lpc \in {"init", "refresh"}
            /\ mpc' = mpc /\ wr' = wr /\ rpc' = rpc /\ stdinBuf' = stdinBuf
       /\ (delivered' # delivered \/ stdinRecvs' # stdinRecvs \/ Len(sigBuf') < Len(sigBuf)) =>
            (lpc = "select" /\ cur = NoMsg /\ running = "none")
       /\ ~(cur' # NoMsg /\ running' # "none")
       /\ (lpc' = "refresh") <=> (cur' # NoMsg)
       /\ (lpc' = "run") <=> (running' # "none")
      ]_vars

\* Lines have been printed while a monitor is storing or parked in its send.
C6_Witness ==
    /\ CountLines(out) >= 2
    /\ \E k \in Kinds : mpc[k] \in {"write", "blocked"}

\* C7: the loop is never at a createBlock of a provider whose monitor is in
\* the middle of storing into that provider's fields.
C7_NoConcurrentFieldAccess ==
    ~(lpc = "refresh" /\ Writing(ProviderAt(build, qi)))

\* C8: a click whose name is a key of providersByName goes to a provider of
\* that name; clicks of one name all go to one position; one handler runs per
\* event received, and the program waited for is that handler's.
C8_ClickRouting ==
    /\ \A i \in 1 .. Len(clicks) :
         clicks[i].name \in DOMAIN providersByName(build) =>
            name(build, ProviderAt(build, clicks[i].to)) = clicks[i].name
    /\ \A i, j \in 1 .. Len(clicks) :
         clicks[i].name = clicks[j].name => clicks[i].to = clicks[j].to
    /\ Len(clicks) = stdinRecvs - (IF stdinSwitched THEN 1 ELSE 0)
    /\ lpc = "run" => (clicks # <<>> /\ running = ProviderAt(build, clicks[Len(clicks)].to))

\* A click named "notification center" reached a handler.
C8_Witness ==
    \E i \in 1 .. Len(clicks) : clicks[i].name = "notification center"

\* C9: no click handler is invoked for an event whose name is not a key of
\* providersByName.
C9_UnknownNameNotDelivered ==
    \A i \in 1 .. Len(clicks) : clicks[i].name \in DOMAIN providersByName(build)

\* C10: once the loop has seen stdinChannel closed, the stdin case of its
\* select is never taken again and no click handler runs; and every monitor
\* then parked in its send is released, every signal then buffered is taken
\* (or the process ends).
C10_AfterInputClosed ==
    /\ [][stdinSwitched =>
            /\ stdinSwitched'
            /\ stdinRecvs' = stdinRecvs
            /\ clicks' = clicks
            /\ lpc' # "run"]_vars
    /\ \A k \in Senders :
         []((stdinSwitched /\ mpc[k] = "blocked") => <>(mpc[k] # "blocked" \/ ~Alive))
    /\ []((stdinSwitched /\ sigBuf # <<>>) => <>(sigBuf = <<>> \/ ~Alive))

\* A provider's notification is handled after the loop saw the channel closed.
C10_Witness ==
    /\ stdinSwitched
    /\ lpc = "refresh"
    /\ cur.from \in Kinds

-----------------------------------------------------------------------------
\* The input stream, the signals and the startup.

\* The click events decoded from the event lines read so far, in input order.
DecodedRead ==
    LET ev == SelectSeq(stdinLog, LAMBDA l : l.kind = "event")
    IN  [i \in 1 .. Len(ev) |-> decodeClickEvent(ev[i])]

\* The events the loop received, in the order it received them.
ClickEvents == [i \in 1 .. Len(clicks) |-> [Name |-> clicks[i].name, Button |-> clicks[i].button]]

\* The events on their way: in the buffer, then the one the reader is sending.
InFlight == stdinBuf \o (IF rpc = "send" THEN <<rpending>> ELSE <<>>)

BadLineRead == \E i \in 1 .. Len(stdinLog) : stdinLog[i].kind = "malformed"

\* C12: when a line that cannot be decoded has been read the process is gone;
\* the step that reads it forwards nothing, and from then on stdout, the
\* channel and the handlers invoked stay as they are.
C12_DecodeFailureFatal ==
    /\ [](BadLineRead => (crashed /\ panicIn = "reader"))
    /\ [][BadLineRead' =>
            /\ out' = out
            /\ stdinBuf' = stdinBuf
            /\ rpc' = rpc
            /\ rpending' = rpending
            /\ clicks' = clicks]_vars

\* An undecodable line was read after lines had been printed.
C12_Witness == BadLineRead /\ CountLines(out) >= 1

NumStop(q) == Cardinality({i \in 1 .. Len(q) : q[i] = "SIGSTOP"})

\* C13: every stop signal delivered to the process is in the signals channel or
\* has been taken by the loop.
C13_StopNeverLost == NumStop(sigLog) = NumStop(sigBuf) + NumStop(logs)

StopTaken == \E i \in 1 .. Len(logs) : logs[i] = "SIGSTOP"

\* C14: stdout never holds a closing bracket; and once the loop has taken the
\* stop signal, stdout, the rendered-state array and the log stay as they are,
\* whatever the monitors and the reader still do.
C14_NothingAfterStop ==
    /\ [](\A i \in 1 .. Len(out) : out[i].kind \in {"header", "[", "line"})
    /\ [](StopTaken => lpc = "returned")
    /\ [][StopTaken => (out' = out /\ fullBlockValues' = fullBlockValues /\ logs' = logs)]_vars

\* The loop returned after printing lines, with a monitor parked in its send.
C14_Witness == lpc = "returned" /\ sendq # <<>> /\ CountLines(out) >= 1

\* C15: the step that takes SIGCONT appends "SIGCONT" to the log and changes
\* nothing else of the loop: not the array, stdout, the lookup (a function of
\* build), the input channel or the loop's variable for it; the loop is at its
\* select again.
C15_ContinueOnlyLogs ==
    [][(logs' # logs /\ sigBuf # <<>> /\ Head(sigBuf) = "SIGCONT") =>
          /\ logs' = Append(logs, "SIGCONT")
          /\ fullBlockValues' = fullBlockValues
          /\ out' = out
          /\ build' = build
          /\ stdinBuf' = stdinBuf /\ stdinClosed' = stdinClosed /\ stdinSwitched' = stdinSwitched
          /\ clicks' = clicks /\ handled' = handled
          /\ lpc = "select" /\ lpc' = "select" /\ Alive'
      ]_vars

\* A notification is being handled after SIGCONT was logged.
C15_Witness ==
    /\ \E i \in 1 .. Len(logs) : logs[i] = "SIGCONT"
    /\ lpc = "refresh"
    /\ cur.from \in Kinds

\* C16: stdout is the header, then "[", then lines; and no notification of a
\* provider is handled (no line is printed for one) before the initial line of
\* the startup refresh.
C16_InitialLineFirst ==
    /\ Len(out) >= 1 => out[1] = HeaderItem
    /\ Len(out) >= 2 => out[2] = OpenItem
    /\ \A i \in 3 .. Len(out) : out[i].kind = "line"
    /\ handled # <<>> =>
         IF build = "slot" THEN StartupLinePrinted ELSE handled[1].from = "init"

\* C17: every line holds one object per provider, in position order: each
\* starts with full_text (empty or not) and carries the provider's name when it
\* has one, and nothing else.
C17_OneBlockPerProvider ==
    \A i \in 1 .. Len(out) :
        out[i].kind = "line" =>
            /\ Len(out[i].body) = Len(blockProviders(build))
            /\ \A j \in 1 .. Len(out[i].body) :
                 LET blk == out[i].body[j]
                     nm == name(build, ProviderAt(build, j - 1)) IN
                 /\ Len(blk) >= 1
                 /\ blk[1][1] = "full_text"
                 /\ IF nm = "" THEN Len(blk) = 1
                    ELSE Len(blk) = 2 /\ blk[2] = <<"name", nm>>

\* A line holds an object whose full_text is empty.
C17_Witness ==
    \E i \in 1 .. Len(out) :
        /\ out[i].kind = "line"
        /\ \E j \in 1 .. Len(out[i].body) : out[i].body[j][1] = <<"full_text", "">>

\* C18: no line holds an object whose full_text is empty.
C18_EmptyBlockOmitted ==
    \A i \in 1 .. Len(out) :
        out[i].kind = "line" =>
            \A j \in 1 .. Len(out[i].body) :
                \A f \in 1 .. Len(out[i].body[j]) : out[i].body[j][f] # <<"full_text", "">>

\* C19: no monitor goroutine panics.
C19_ProviderFailureNotFatal == panicIn \in {"none", "reader"}

\* C20: while the loop waits for a click handler's program, a parked
\* notification is eventually received and a buffered signal eventually taken
\* (or the process ends).
C20_HandlerDoesNotBlock ==
    /\ \A k \in Senders :
         []((lpc = "run" /\ mpc[k] = "blocked") => <>(mpc[k] # "blocked" \/ ~Alive))
    /\ []((lpc = "run" /\ sigBuf # <<>>) => <>(sigBuf = <<>> \/ ~Alive))

-----------------------------------------------------------------------------
\* The lookup, re-notification, the monitors' notifications and the two loops.

\* C21: the lookup the loop routes clicks with has exactly the non-empty names
\* of the registered providers as keys, maps each to the position of a provider
\* of that name, and is the same in every state: every click received was
\* routed with it.
C21_LookupTable ==
    /\ DOMAIN providersByName(build) =
           {name(build, k) : k \in Registered(build)} \ {""}
    /\ \A nm \in DOMAIN providersByName(build) :
           /\ providersByName(build)[nm] \in Positions(build)
           /\ name(build, ProviderAt(build, providersByName(build)[nm])) = nm
    /\ \A i \in 1 .. Len(clicks) :
           clicks[i].to = (IF clicks[i].name \in DOMAIN providersByName(build)
                           THEN providersByName(build)[clicks[i].name] ELSE 0)

\* Clicks of two different registered names have been routed.
C21_Witness ==
    /\ Len(clicks) = 2
    /\ clicks[1].name \in DOMAIN providersByName(build)
    /\ clicks[2].name \in DOMAIN providersByName(build)
    /\ clicks[1].name # clicks[2].name

\* The place in stdout of the line printed for the i-th notification handled.
LineIndex(i) == 2 + i + (IF build = "slot" THEN 1 ELSE 0)

\* The i-th and the next notification handled come from one provider and were
\* caused by updates that stored the same value.
Renotified(i) ==
    /\ handled[i].from \in Kinds
    /\ handled[i + 1].from = handled[i].from
    /\ handled[i + 1].text = handled[i].text

\* C22: two consecutive notifications of one provider whose value did not
\* change in between give two lines, and the two lines hold the same objects at
\* every position.
C22_RenotificationIdempotent ==
    \A i \in 1 .. (Len(handled) - 1) :
        Renotified(i) =>
            /\ Len(out) >= LineIndex(i + 1)
            /\ out[LineIndex(i)].kind = "line" /\ out[LineIndex(i + 1)].kind = "line"
            /\ out[LineIndex(i + 1)].body = out[LineIndex(i)].body

\* C23: the handlers invoked so far were invoked for the first events decoded,
\* one invocation per event and in the order of their lines; the events not yet
\* dispatched are all still on their way; the buffer holds one event at most,
\* grows only when empty and shrinks only by the loop's receive; the reader
\* waits in its send while the buffer is full.
C23_ClicksOnceInOrder ==
    /\ [](/\ Len(ClickEvents) <= Len(DecodedRead)
          /\ ClickEvents = SubSeq(DecodedRead, 1, Len(ClickEvents))
          /\ Len(InFlight) = Len(DecodedRead) - Len(ClickEvents)
          /\ Len(stdinBuf) <= 1)
    /\ [][stdinBuf' # stdinBuf =>
            \/ stdinBuf = <<>> /\ stdinBuf' = <<rpending>> /\ rpc = "send" /\ clicks' = clicks
            \/ stdinBuf' = <<>> /\ Len(clicks') = Len(clicks) + 1
                 /\ ClickEvents'[Len(clicks')] = stdinBuf[1]]_vars
    /\ [][(rpc = "send" /\ stdinBuf # <<>>) => (rpc' = "send" /\ rpending' = rpending)]_vars

\* Two different events were read and both were dispatched.
C23_Witness ==
    /\ Len(clicks) = 2
    /\ ClickEvents[1] # ClickEvents[2]
    /\ ClickEvents = DecodedRead

\* The providers whose output is computed from fields their monitor stores.
FieldKinds == {"volume", "weather", "temperature", "nc"}

\* C24: a monitor's step posts a notification only if it changes the text its
\* provider's createBlock returns, it posts one, and every step that changes
\* that text posts one.
C24_NotifyOncePerChange ==
    [][\A k \in FieldKinds :
          /\ posts'[k] # posts[k] =>
                /\ posts'[k] = posts[k] + 1
                /\ createBlock(k, pval'[k], now) # createBlock(k, pval[k], now)
          /\ createBlock(k, pval'[k], now) # createBlock(k, pval[k], now) =>
                posts'[k] = posts[k] + 1
      ]_vars

\* The monitor of provider k has not produced an update yet: it has stored
\* nothing into the provider's fields (the time and ip providers have none: the
\* time monitor has posted nothing, the ip monitor never does anything).
NoUpdateYet(k) ==
    CASE k \in FieldKinds -> ver[k] = 0 /\ ~Writing(k)
      [] k = "time" -> posts[k] = 0
      [] OTHER -> TRUE

\* C25: the Block the loop holds for a provider whose monitor has produced no
\* update yet (the zero Block, or what createBlock returned) has an empty text.
C25_EmptyBeforeFirstUpdate ==
    \A i \in Positions(build) :
        NoUpdateYet(ProviderAt(build, i)) => fullBlockValues[i].FullText = ""

\* Position of the ip provider in the table of the slot build.
IpPosition == IndexOf("slot", "ip")

\* C26: in the slot build the startup refresh queries the ip provider (its
\* slot then carries its name); afterwards neither its slot nor its text ever
\* changes, and every line shows at its position what the first line shows.
C26_IpQueriedOnceAtStartup ==
    /\ []((build = "slot" /\ StartupLinePrinted) =>
             /\ fullBlockValues[IpPosition].Name = name("slot", "ip")
             /\ fullBlockValues[IpPosition].FullText = pval["ip"]
             /\ \A i \in 3 .. Len(out) : out[i].body[IpPosition + 1] = out[3].body[IpPosition + 1])
    /\ [][(build = "slot" /\ StartupLinePrinted) =>
             /\ fullBlockValues'[IpPosition] = fullBlockValues[IpPosition]
             /\ pval'["ip"] = pval["ip"]
             /\ posts'["ip"] = 0]_vars

\* In the slot build a notification has been handled after a startup refresh
\* in which hostname -I failed: the ip slot is still empty.
C26_Witness ==
    /\ build = "slot"
    /\ Len(handled) >= 1
    /\ fullBlockValues[IpPosition] = [FullText |-> "", Name |-> "network"]

\* The answer of the last poll of the weather monitor that did not panic.
LastPoll == pollLog[Len(pollLog)]

\* C27: no poll of the weather monitor ends the process; a poll whose status
\* cannot be parsed or whose body cannot be read leaves the text, the monitor
\* and its count of notifications as they are; a poll answered with a status
\* outside 200..299 stores "wttr.in status code <status>" and goes on to post;
\* and the notifications posted never outnumber the polls.
C27_WeatherFailedPoll ==
    /\ [](panicIn # "weather")
    /\ [](posts["weather"] <= Len(pollLog))
    /\ [][Len(pollLog') > Len(pollLog) =>
            LET status == ParseStatus(LastPoll'.status) IN
            /\ (status = -1 \/ (status >= 200 /\ status < 300 /\ ~LastPoll'.readOk)) =>
                  /\ pval'["weather"] = pval["weather"]
                  /\ mpc'["weather"] = "wait"
                  /\ posts'["weather"] = posts["weather"]
            /\ (status # -1 /\ ~(status >= 200 /\ status < 300)) =>
                  /\ wr'["weather"] = "wttr.in status code " \o ToString(status)
                  /\ mpc'["weather"] = "write"
      ]_vars

\* The opening-bracket line has been read.
BracketRead == \E i \in 1 .. Len(stdinLog) : stdinLog[i].kind = "["

\* C28: no event is on the channel or with the loop before the opening-bracket
\* line has been read; the step that reads a bracket line forwards nothing; the
\* channel is closed in one step that ends the reader; and once the reader has
\* ended it reads no line and puts nothing on the channel.
C28_ReaderStateMachine ==
    /\ []((stdinBuf # <<>> \/ clicks # <<>>) => BracketRead)
    /\ [][(Len(stdinLog') > Len(stdinLog) /\ stdinLog'[Len(stdinLog')].kind = "[") =>
             (rpc' = "read" /\ rpending' = rpending /\ stdinBuf' = stdinBuf
              /\ stdinClosed' = stdinClosed)]_vars
    /\ [][stdinClosed' # stdinClosed => (~stdinClosed /\ stdinClosed' /\ rpc' = "closed")]_vars
    /\ [][rpc = "closed" =>
             (rpc' = "closed" /\ stdinClosed' /\ stdinLog' = stdinLog
              /\ (stdinBuf' = stdinBuf \/ stdinBuf' = Tail(stdinBuf)))]_vars

\* The last click the loop received went to a handler that runs a program.
LastClickRanProgram ==
    /\ clicks # <<>>
    /\ LET c == clicks[Len(clicks)] IN
         RunsProgram(build, ProviderAt(build, c.to), [Name |-> c.name, Button |-> c.button])

\* C29: the step in which the program of a click handler ends, failed or not,
\* puts the loop back at its select with the process alive, and neither that
\* step nor the receipt of the click changes the array, stdout or the log.
C29_ClickFailureSwallowed ==
    [][(lpc = "run" /\ lpc' # "run") \/ clicks' # clicks =>
          /\ lpc' \in {"select", "run"}
          /\ crashed' = crashed
          /\ fullBlockValues' = fullBlockValues
          /\ out' = out
          /\ logs' = logs]_vars

\* The program of a click handler has ended and the loop is back at its select.
C29_Witness == LastClickRanProgram /\ lpc = "select" /\ running = "none" /\ Alive

\* updateFullBlockValues of the full-refresh loop: the blocks createBlock of the
\* provider at position i can return in the present state of the providers,
\* with the name set.
updateFullBlockValues(b, i) ==
    LET k == ProviderAt(b, i) IN
    {[FullText |-> IF k = "ip" THEN ipTextAfter(pval[k], host) ELSE createBlock(k, v, now),
      Name |-> name(b, k)] : v \in FieldsSeen(k), host \in HostnameOutcomes}

\* C30: every line the single-slot loop prints for a notification is a line the
\* full-refresh loop can print for that notification on the same state of the
\* providers: at every position it holds an object that a refresh of every
\* position would put there.
C30_LoopsOutputEquivalent ==
    [][(build = "slot" /\ handled' # handled) =>
          \A i \in Positions(build) :
              out'[Len(out')].body[i + 1] \in
                  {MarshalBlock(x) : x \in updateFullBlockValues(build, i)}]_vars

-----------------------------------------------------------------------------
\* set-wallpaper (src/set-wallpaper/main.go, the program of lines 1-384).

\* slices.Contains
Contains(list, x) == \E i \in 1 .. Len(list) : list[i] = x

\* What the window manager may answer to IPC_GET_OUTPUTS.
OutputReplies == {<<>>, <<"eDP-1">>, <<"eDP-1", "HDMI-A-1">>}
\* What the scan of the wallpaper directories may find.
WallpaperScans == {<<>>, <<"a.png">>}
\* The command lines tried: no argument, an output, an output and a wallpaper
\* ("DP-9" is no output the window manager reports, "b.png" no file of the
\* wallpaper directories).
ArgLists ==
    {<<>>, <<"eDP-1">>, <<"DP-9">>, <<"eDP-1", "a.png">>, <<"eDP-1", "b.png">>,
     <<"DP-9", "a.png">>, <<"DP-9", "b.png">>}

\* A line on stdout.
Said(text, about) == [text |-> text, about |-> about]

\* fmt.Println(...); os.Exit(1)
Exit1(text, about) ==
    /\ wout' = Append(wout, Said(text, about))
    /\ wpc' = "exit1"

WallInit ==
    /\ BarInit /\ build = "full"
    /\ ColorIdle
    /\ wpc = "start"
    /\ osArgs \in ArgLists
    /\ outputs = <<>>
    /\ wallpapers = <<>>
    /\ calls = <<>>
    /\ screen = ""
    /\ wallpaper = ""
    /\ sizes = <<>>
    /\ wout = <<>>
    /\ bgSet = <<>>

\* outputs := getAllOutputs(): the reply cannot be unmarshalled (an empty reply
\* after a failed exchange included), or it lists the outputs' names.
GetAllOutputs ==
    /\ wpc = "start"
    /\ \/ /\ Exit1("Json parse error", "")
          /\ UNCHANGED outputs
       \/ /\ \E reply \in OutputReplies : outputs' = reply
          /\ wpc' = "scan"
          /\ UNCHANGED wout
    /\ UNCHANGED <<barVars, colorVars, osArgs, wallpapers, calls, screen, wallpaper, sizes, bgSet>>

\* getCurrentWallpaperDirectories and getAllWallpaperPaths for each directory.
ScanWallpapers ==
    /\ wpc = "scan"
    /\ \/ /\ Exit1("Error when reading wallpaper directory", "")
          /\ UNCHANGED wallpapers
       \/ /\ \E found \in WallpaperScans : wallpapers' = found
          /\ wpc' = "args"
          /\ UNCHANGED wout
    /\ UNCHANGED <<barVars, colorVars, osArgs, outputs, calls, screen, wallpaper, sizes, bgSet>>

\* main from `if len(os.Args) <= 1`: without arguments one call per output with
\* a wallpaper drawn at random, if there is any wallpaper; with arguments the
\* two slices.Contains tests and one call.
MainArgs ==
    /\ wpc = "args"
    /\ IF Len(osArgs) = 0
       THEN /\ IF Len(wallpapers) > 0
               THEN \E draw \in [1 .. Len(outputs) -> 1 .. Len(wallpapers)] :
                      calls' = [i \in 1 .. Len(outputs) |->
                                  [screen |-> outputs[i], wallpaper |-> wallpapers[draw[i]]]]
               ELSE calls' = <<>>
            /\ wpc' = "calls"
            /\ UNCHANGED wout
       ELSE LET output == osArgs[1]
                given == IF Len(osArgs) > 1 THEN osArgs[2] ELSE ""
            IN  IF Contains(outputs, output)
                THEN /\ Exit1("is not a valid output", output)
                     /\ UNCHANGED calls
                ELSE IF Contains(wallpapers, given)
                THEN /\ Exit1("does not exist in path", given)
                     /\ UNCHANGED calls
                ELSE /\ calls' = <<[screen |-> output, wallpaper |-> given]>>
                     /\ wpc' = "calls"
                     /\ UNCHANGED wout
    /\ UNCHANGED <<barVars, colorVars, osArgs, outputs, wallpapers, screen, wallpaper, sizes, bgSet>>

\* main calls setWallpaperForScreen, which prints "Using <wallpaper> for <screen>".
CallSetWallpaper ==
    /\ wpc = "calls"
    /\ calls # <<>>
    /\ screen' = Head(calls).screen
    /\ wallpaper' = Head(calls).wallpaper
    /\ calls' = Tail(calls)
    /\ wout' = Append(wout, Said("Using", Head(calls).screen))
    /\ wpc' = "measure"
    /\ UNCHANGED <<barVars, colorVars, osArgs, outputs, wallpapers, sizes, bgSet>>

\* main returns.
MainReturns ==
    /\ wpc = "calls"
    /\ calls = <<>>
    /\ wpc' = "done"
    /\ UNCHANGED <<barVars, colorVars, osArgs, outputs, wallpapers, calls, screen, wallpaper, sizes,
                   wout, bgSet>>

\* Mutant of renderSizes: the sizes are never swapped.
renderSizesNoSwap(imgW, imgH, screenWidth, screenHeight) ==
    [imgW |-> imgW, imgH |-> imgH, screenWidth |-> screenWidth, screenHeight |-> screenHeight,
     newDesktopHeight |-> screenHeight,
     newDesktopWidth |-> (imgW * screenHeight) \div imgH,
     newLockScreenWidth |-> screenWidth,
     newLockScreenHeight |-> (imgH * screenWidth) \div imgW,
     swapped |-> FALSE]

\* The render sizes of setWallpaperForScreen: the four assignments and the swap.
\* Go's int is 64 bits wide on the platforms of the program (sway); the two
\* products stay far below 2^63 for any size an image file or a screen can
\* have, and / on positive operands is \div.
renderSizes(imgW, imgH, screenWidth, screenHeight) ==
    LET newDesktopHeight == screenHeight
        newDesktopWidth == (imgW * screenHeight) \div imgH
        newLockScreenWidth == screenWidth
        newLockScreenHeight == (imgH * screenWidth) \div imgW
    IN  IF newLockScreenHeight < screenHeight
        THEN [imgW |-> imgW, imgH |-> imgH,
              screenWidth |-> screenWidth, screenHeight |-> screenHeight,
              newDesktopHeight |-> newLockScreenHeight,
              newDesktopWidth |-> newLockScreenWidth,
              newLockScreenWidth |-> newDesktopWidth,
              newLockScreenHeight |-> newDesktopHeight,
              swapped |-> TRUE]
        ELSE [imgW |-> imgW, imgH |-> imgH,
              screenWidth |-> screenWidth, screenHeight |-> screenHeight,
              newDesktopHeight |-> newDesktopHeight,
              newDesktopWidth |-> newDesktopWidth,
              newLockScreenWidth |-> newLockScreenWidth,
              newLockScreenHeight |-> newLockScreenHeight,
              swapped |-> FALSE]

\* setWallpaperForScreen up to the swap: the screen's size is asked for, the
\* file is opened and decoded (each can fail and exit; the empty path never
\* opens), and the render sizes are computed.
Measure ==
    /\ wpc = "measure"
    /\ \/ /\ \E text \in {"Json parse error", "Could not load file", "Could not decode image"} :
                Exit1(text, wallpaper)
          /\ UNCHANGED sizes
       \/ /\ wallpaper # ""
          /\ \E imgW \in 1 .. MaxDim, imgH \in 1 .. MaxDim,
                screenWidth \in 1 .. MaxDim, screenHeight \in 1 .. MaxDim :
                sizes' = renderSizes(imgW, imgH, screenWidth, screenHeight)
          /\ wpc' = "render"
          /\ UNCHANGED wout
    /\ UNCHANGED <<barVars, colorVars, osArgs, outputs, wallpapers, calls, screen, wallpaper, bgSet>>

\* The rest of setWallpaperForScreen: the two images are drawn and written (a
\* file that cannot be created exits), the background command is sent, and the
\* call returns.
Render ==
    /\ wpc = "render"
    /\ \/ /\ Exit1("Could not create image", screen)
          /\ UNCHANGED <<sizes, bgSet>>
       \/ /\ bgSet' = Append(bgSet, [screen |-> screen, wallpaper |-> wallpaper])
          /\ wout' = Append(wout, Said("Updating output to", screen))
          /\ sizes' = <<>>
          /\ wpc' = "calls"
    /\ UNCHANGED <<barVars, colorVars, osArgs, outputs, wallpapers, calls, screen, wallpaper>>

WallNext ==
    \/ GetAllOutputs
    \/ ScanWallpapers
    \/ MainArgs
    \/ CallSetWallpaper
    \/ MainReturns
    \/ Measure
    \/ Render

WallSpec == WallInit /\ [][WallNext]_vars

-----------------------------------------------------------------------------
\* Properties of set-wallpaper.

\* The last line on stdout says that the output named is not valid.
SaidNotValid(output) ==
    wout # <<>> /\ wout[Len(wout)] = Said("is not a valid output", output)

\* C31: run with an output name, main goes on to call setWallpaperForScreen
\* only if the name is among the outputs the window manager reported, and it
\* exits with "is not a valid output" exactly when the name is not among them.
C31_ExplicitOutputValidated ==
    [][(wpc = "args" /\ wpc' # "args" /\ osArgs # <<>>) =>
          /\ wpc' = "calls" => Contains(outputs, osArgs[1])
          /\ (wpc' = "exit1" /\ SaidNotValid(osArgs[1])') <=> ~Contains(outputs, osArgs[1])
      ]_vars

\* The render sizes of a call have been computed.
Sized == wpc = "render"

\* C32: once the render sizes are computed, the lock-screen size is at least
\* the screen's in both directions and the desktop size at most the screen's in
\* both directions.
C32_RenderSizesBracketScreen ==
    Sized =>
        /\ sizes.newLockScreenWidth >= sizes.screenWidth
        /\ sizes.newLockScreenHeight >= sizes.screenHeight
        /\ sizes.newDesktopWidth <= sizes.screenWidth
        /\ sizes.newDesktopHeight <= sizes.screenHeight

\* The sizes were swapped, both divisions left a remainder, and the image and
\* the screen differ in both directions.
C32_Witness ==
    /\ Sized
    /\ sizes.swapped
    /\ (sizes.imgW * sizes.screenHeight) % sizes.imgH # 0
    /\ (sizes.imgH * sizes.screenWidth) % sizes.imgW # 0
    /\ sizes.imgW # sizes.screenWidth /\ sizes.imgH # sizes.screenHeight

-----------------------------------------------------------------------------
\* colorToString (src/status-bar/main.go). Strings are sequences of characters.

\* The values tried for each of the three bytes of a colour.
ChannelSamples == {0, 9, 10, 99, 171, 255}
\* The 24-bit colours tried.
Colors == {r * 65536 + g * 256 + b : r \in ChannelSamples, g \in ChannelSamples,
                                     b \in ChannelSamples}

DecimalDigits == <<"0", "1", "2", "3", "4", "5", "6", "7", "8", "9">>

\* %d of a number >= 0.
RECURSIVE FormatDecimal(_)
FormatDecimal(n) ==
    IF n < 10 THEN <<DecimalDigits[n + 1]>>
    ELSE FormatDecimal(n \div 10) \o <<DecimalDigits[(n % 10) + 1]>>

\* %02d of a number >= 0: decimal, padded with zeros to two characters at least.
Format02d(n) ==
    IF Len(FormatDecimal(n)) < 2 THEN <<"0">> \o FormatDecimal(n) ELSE FormatDecimal(n)

\* fmt.Sprintf("#%02d%02d%02d", c&0xFF, (c>>8)&0xFF, (c>>16)&0xFF), for c >= 0.
colorToString(c) ==
    <<"#">> \o Format02d(c % 256) \o Format02d((c \div 256) % 256)
            \o Format02d((c \div 65536) % 256)

ColorInit ==
    /\ BarInit /\ build = "full"
    /\ WallIdle
    /\ colorIn \in Colors
    /\ colorOut = <<>>

\* The call colorToString(c) returns.
CallColorToString ==
    /\ colorOut = <<>>
    /\ colorOut' = colorToString(colorIn)
    /\ UNCHANGED <<barVars, wallVars, colorIn>>

ColorNext == CallColorToString

ColorSpec == ColorInit /\ [][ColorNext]_vars

\* The value of a hexadecimal digit, in either case; -1 for any other character.
HexValue(ch) ==
    LET lower == DecimalDigits \o <<"a", "b", "c", "d", "e", "f">>
        upper == DecimalDigits \o <<"A", "B", "C", "D", "E", "F">>
    IN  IF \E i \in 1 .. 16 : lower[i] = ch THEN (CHOOSE i \in 1 .. 16 : lower[i] = ch) - 1
        ELSE IF \E i \in 1 .. 16 : upper[i] = ch THEN (CHOOSE i \in 1 .. 16 : upper[i] = ch) - 1
        ELSE -1

\* C33: the string returned is "#" and six hexadecimal digits, which read two
\* by two are the red, the green and the blue byte of the colour.
C33_ColorIsRRGGBB ==
    colorOut # <<>> =>
        /\ Len(colorOut) = 7
        /\ colorOut[1] = "#"
        /\ \A i \in 2 .. 7 : HexValue(colorOut[i]) >= 0
        /\ 16 * HexValue(colorOut[2]) + HexValue(colorOut[3]) = (colorIn \div 65536) % 256
        /\ 16 * HexValue(colorOut[4]) + HexValue(colorOut[5]) = (colorIn \div 256) % 256
        /\ 16 * HexValue(colorOut[6]) + HexValue(colorOut[7]) = colorIn % 256

====
